---------------------------- MODULE Spec2Model ----------------------------
(***************************************************************************)
(* Pocket: a JUCE plugin that measures how far each MIDI note-on is from   *)
(* the nearest quarter-note grid line of the host transport.               *)
(*                                                                         *)
(* PocketAudioProcessor::processBlock (audio thread) computes the          *)
(* deviation and stores it, with the transport position, in two atomic     *)
(* doubles.  PocketAudioProcessorEditor::timerCallback (message thread)    *)
(* loads the two atomics and queues label updates with                     *)
(* MessageManager::callAsync.                                              *)
(*                                                                         *)
(* A C++ double is modelled as an exact rational, or one of the IEEE-754   *)
(* special values that a division by zero produces (infinities, NaN).      *)
(***************************************************************************)
EXTENDS Integers, Sequences, FiniteSets, TLC

(***************************************************************************)
(* Bounds of the model.                                                    *)
(***************************************************************************)
\* Longest MIDI buffer handed to one processBlock call.
MaxEvents == 2
\* Number of processBlock calls in one behaviour.
MaxBlocks == 2
\* Number of timerCallback calls in one behaviour.
MaxTicks == 2

(***************************************************************************)
(* double arithmetic.                                                      *)
(***************************************************************************)
RECURSIVE GCD(_, _)
GCD(a, b) == IF b = 0 THEN a ELSE GCD(b, a % b)

Abs(n) == IF n < 0 THEN -n ELSE n

Sign(n) == IF n < 0 THEN -1 ELSE IF n > 0 THEN 1 ELSE 0

\* The double n/d (d # 0), in lowest terms with a positive denominator.
Rat(n, d) ==
    LET g == GCD(Abs(n), Abs(d))
        s == IF d < 0 THEN -1 ELSE 1
    IN  [k |-> "fin", n |-> (s * n) \div g, d |-> Abs(d) \div g]

\* Conversion of an int to double.
FromInt(n) == [k |-> "fin", n |-> n, d |-> 1]

NaN == [k |-> "nan", n |-> 0, d |-> 0]

\* Infinity with the sign of s.
Inf(s) == [k |-> "inf", n |-> Sign(s), d |-> 0]

IsFinite(x) == x.k = "fin"

IsNaN(x) == x.k = "nan"

\* x < y on doubles: every comparison with a NaN is false.
DLess(x, y) ==
    CASE IsNaN(x) \/ IsNaN(y) -> FALSE
      [] x.k = "inf" /\ y.k = "inf" -> x.n < y.n
      [] x.k = "inf" -> x.n < 0
      [] y.k = "inf" -> y.n > 0
      [] OTHER -> x.n * y.d < y.n * x.d

DLessEq(x, y) == (~IsNaN(x)) /\ (~IsNaN(y)) /\ ~DLess(y, x)

DNeg(x) == [x EXCEPT !.n = -x.n]

DAbs(x) == [x EXCEPT !.n = Abs(x.n)]

DAdd(x, y) ==
    CASE IsNaN(x) \/ IsNaN(y) -> NaN
      [] x.k = "inf" /\ y.k = "inf" -> IF x.n = y.n THEN x ELSE NaN
      [] x.k = "inf" -> x
      [] y.k = "inf" -> y
      [] OTHER -> Rat(x.n * y.d + y.n * x.d, x.d * y.d)

DSub(x, y) == DAdd(x, DNeg(y))

DMul(x, y) ==
    CASE IsNaN(x) \/ IsNaN(y) -> NaN
      [] x.k = "inf" \/ y.k = "inf" ->
            IF x.n = 0 \/ y.n = 0 THEN NaN ELSE Inf(x.n * y.n)
      [] OTHER -> Rat(x.n * y.n, x.d * y.d)

\* IEEE-754 division; a finite zero divisor is +0.0.
DDiv(x, y) ==
    CASE IsNaN(x) \/ IsNaN(y) -> NaN
      [] x.k = "inf" /\ y.k = "inf" -> NaN
      [] x.k = "inf" -> Inf(IF y.n < 0 THEN -x.n ELSE x.n)
      [] y.k = "inf" -> FromInt(0)
      [] y.n = 0 -> IF x.n = 0 THEN NaN ELSE Inf(x.n)
      [] OTHER -> Rat(x.n * y.d, x.d * y.n)

\* Rounding to the nearest integer, halfway cases to even.
RoundHalfEven(x) ==
    IF ~IsFinite(x) THEN x
    ELSE LET fl == x.n \div x.d
             r2 == 2 * (x.n - fl * x.d)
         IN  FromInt(IF r2 < x.d THEN fl
                     ELSE IF r2 > x.d THEN fl + 1
                     ELSE IF fl % 2 = 0 THEN fl ELSE fl + 1)

\* std::trunc: the fraction is dropped.
StdTrunc(x) ==
    IF ~IsFinite(x) THEN x
    ELSE FromInt(Sign(x.n) * (Abs(x.n) \div x.d))

\* std::round: nearest integer, halfway cases away from zero.
StdRound(x) ==
    IF ~IsFinite(x) THEN x
    ELSE FromInt(Sign(x.n) * ((2 * Abs(x.n) + x.d) \div (2 * x.d)))


(***************************************************************************)
(* Inputs of one processBlock call.                                        *)
(***************************************************************************)
\* A MIDI event is [samplePosition, isNoteOn]: the metadata's sample offset
\* in the block and what getMessage().isNoteOn() answers.  juce::MidiBuffer
\* keeps its events ordered by sample position; iteration order is arrival
\* order.

\* What the host answers: playHead is "null" (getPlayHead() = nullptr),
\* "fails" (getCurrentPosition returns false) or "ok".
Blocks(playHeads, playing, bpms, ppqs, rates, buffers) ==
    [playHead : playHeads, isPlaying : playing, bpm : bpms,
     ppqPosition : ppqs, sampleRate : rates, midiMessages : buffers]

\* Note-ons on the grid (sample 0), 0.1 s and 0.25 s into the block, and
\* a note-off.
MidiAlphabet ==
    [samplePosition : {0, 4410, 11025}, isNoteOn : {TRUE}]
    \cup [samplePosition : {4410}, isNoteOn : {FALSE}]

\* Every buffer of at most maxLen events of the alphabet.
MidiBuffers(maxLen) ==
    UNION { { m \in [1..len -> MidiAlphabet] :
                \A j \in 1..(len - 1) :
                    m[j].samplePosition <= m[j + 1].samplePosition }
            : len \in 0..maxLen }

\* The blocks of the sequential specification: a playing transport with a
\* positive, zero or negative tempo, a position on the grid or half-way
\* between two grid lines, a sample rate of 44100 or 0; a stopped or
\* missing transport.
BlockInputs ==
    Blocks({"ok"}, {TRUE}, {FromInt(60), FromInt(120)},
           {FromInt(4), Rat(-9, 2)}, {FromInt(44100)}, MidiBuffers(MaxEvents))
    \cup
    Blocks({"ok"}, {TRUE}, {FromInt(120)}, {FromInt(4)}, {FromInt(0)},
           MidiBuffers(MaxEvents))
    \cup
    Blocks({"ok"}, {TRUE}, {FromInt(-120), FromInt(0)}, {FromInt(4)},
           {FromInt(44100)}, MidiBuffers(MaxEvents))
    \cup
    Blocks({"ok"}, {FALSE}, {FromInt(120)}, {FromInt(4)}, {FromInt(44100)},
           MidiBuffers(MaxEvents))
    \cup
    Blocks({"null", "fails"}, {TRUE, FALSE}, {FromInt(120)}, {FromInt(4)},
           {FromInt(44100)}, MidiBuffers(1))

\* No call is in progress.
NoBlock ==
    [playHead |-> "null", isPlaying |-> FALSE, bpm |-> FromInt(0),
     ppqPosition |-> FromInt(0), sampleRate |-> FromInt(0),
     midiMessages |-> << >>]

(***************************************************************************)
(* The timing computation of processBlock.                                 *)
(***************************************************************************)
\* The playhead exists, answers, and says the transport is playing.
IgnoresIsPlaying(b) == b.playHead = "ok"

TransportPlaying(b) == b.playHead = "ok" /\ b.isPlaying

\* Accepts every tempo but zero.
TempoNonZero(bpm) == bpm # FromInt(0)

TempoValid(bpm) == DLess(FromInt(0), bpm)

\* Iterates the buffer backwards.
ReverseEventAt(midi, idx) == midi[Len(midi) + 1 - idx]

\* The idx-th event the range-for visits.
EventAt(midi, idx) == midi[idx]

\* Treats every message as a note-on.
AnyMessage(metadata) == TRUE

IsNoteOn(metadata) == metadata.isNoteOn

SecondsIntoBuffer(samplePosition, rate) ==
    DDiv(FromInt(samplePosition), rate)

\* secondsIntoBuffer * (ppqPerMinute / 60.0); the quotient is the one
\* element of a set, so that it is computed once.
PpqOffset(secondsIntoBuffer, ppqPerMinute) ==
    CHOOSE offset \in {DMul(secondsIntoBuffer, ppqPerSecond) :
                          ppqPerSecond \in {DDiv(ppqPerMinute, FromInt(60))}} :
        TRUE

\* Subtracts the offset instead of adding it.
NoteAbsolutePpqBackwards(startPpq, ppqOffset) == DSub(startPpq, ppqOffset)

NoteAbsolutePpq(startPpq, ppqOffset) == DAdd(startPpq, ppqOffset)

NearestQuarterNotePpq(noteAbsolutePpq) == StdRound(noteAbsolutePpq)

\* The value stored for one note-on.  Each local is the one element of a
\* set, so that it is computed once and is a value where it is used.
MsDifference(b, metadata) ==
    LET ppqPerMinute == b.bpm
        startPpq == b.ppqPosition
        secondsIntoBuffer ==
            {SecondsIntoBuffer(metadata.samplePosition, b.sampleRate)}
        ppqOffset ==
            {PpqOffset(seconds, ppqPerMinute) : seconds \in secondsIntoBuffer}
        noteAbsolutePpq ==
            {NoteAbsolutePpq(startPpq, offset) : offset \in ppqOffset}
        nearestQuarterNotePpq ==
            {NearestQuarterNotePpq(absolute) : absolute \in noteAbsolutePpq}
        ppqDifference ==
            {DSub(absolute, nearest) :
                absolute \in noteAbsolutePpq,
                nearest \in nearestQuarterNotePpq}
        msPerPpq == {DDiv(FromInt(60000), ppqPerMinute)}
        msDifference ==
            {DMul(difference, ms) :
                difference \in ppqDifference, ms \in msPerPpq}
    IN  CHOOSE ms \in msDifference : TRUE


(***************************************************************************)
(* Text of a label.                                                        *)
(***************************************************************************)
RECURSIVE Pow10(_)
Pow10(e) == IF e = 0 THEN 1 ELSE 10 * Pow10(e - 1)

\* juce::String (double, numberOfDecimalPlaces): the number in fixed
\* notation; v is the printed number times 10^decimals.
FormatFixed(x, decimals) ==
    IF IsFinite(x)
    THEN [txt |-> "number",
          v |-> RoundHalfEven(DMul(x, FromInt(Pow10(decimals)))).n]
    ELSE [txt |-> x.k, v |-> x.n]

EmptyString == [txt |-> "", v |-> 0]

\* text + " ms"
Ms(number) == [number EXCEPT !.txt = "ms"]

\* "+ " + text + " ms"
PlusMs(number) == [number EXCEPT !.txt = "+ms"]

\* "PPQ: " + text
Ppq(number) == [number EXCEPT !.txt = "PPQ"]

Stopped == [txt |-> "Stopped", v |-> 0]

(***************************************************************************)
(* State.                                                                  *)
(***************************************************************************)
VARIABLES
    \* PocketAudioProcessor: the two std::atomic<double> members
    lastTimingDifferenceMs,
    currentPpqPosition,
    \* processBlock on the audio thread: position in the function, the
    \* call's inputs, the range-for's position in midiMessages, and the
    \* number of calls so far
    pc,
    block,
    it,
    blockNo,
    \* PocketAudioProcessorEditor on the message thread: position in
    \* timerCallback, its locals differenceMs and ppq, the pending
    \* callAsync lambdas, the labels, and the number of callbacks so far
    tpc,
    differenceMs,
    ppq,
    messageQueue,
    earlyMsLabel,
    lateMsLabel,
    playheadLabel,
    tickNo,
    \* PocketAudioProcessorEditor: "alive" from its constructor to its
    \* destructor, then "destroyed"; "crashed" when the process has died of
    \* an access to the destroyed editor
    editor,
    \* History: the deviation published when the current call began
    devBefore,
    \* History: which store wrote each atomic's current value
    \* (call number, event index or 0, and whether it is the call's last
    \* store to that atomic)
    devTag,
    posTag,
    \* History: the deviations left published by the calls completed so
    \* far, with the initial value
    devOutcomes,
    \* History: one record per load timerCallback has made of each atomic
    devLoads,
    posLoads,
    \* History: the callback whose lambda set the deviation labels and the
    \* playhead label last (0: the constructor's texts)
    labelTick

audioVars == <<pc, block, it, blockNo, devBefore>>

sharedVars ==
    <<lastTimingDifferenceMs, currentPpqPosition, devTag, posTag, devOutcomes>>

editorVars ==
    <<tpc, differenceMs, ppq, messageQueue, earlyMsLabel, lateMsLabel,
      playheadLabel, tickNo, editor, devLoads, posLoads, labelTick>>

vars == <<audioVars, sharedVars, editorVars>>

\* PluginProcessor.h:
\*   std::atomic<double> lastTimingDifferenceMs { 0.0 };
\*   std::atomic<double> currentPpqPosition { -1.0 };
InitialTimingDifferenceMs == FromInt(0)

InitialPpqPosition == FromInt(-1)

InitialTag == [blk |-> 0, idx |-> 0, final |-> TRUE]

Init ==
    /\ lastTimingDifferenceMs = InitialTimingDifferenceMs
    /\ currentPpqPosition = InitialPpqPosition
    /\ pc = "idle"
    /\ block = NoBlock
    /\ it = 1
    /\ blockNo = 0
    /\ tpc = "idle"
    /\ differenceMs = FromInt(0)
    /\ ppq = FromInt(0)
    /\ messageQueue = << >>
    /\ earlyMsLabel = EmptyString
    /\ lateMsLabel = EmptyString
    /\ playheadLabel = Stopped
    /\ tickNo = 0
    /\ editor = "alive"
    /\ devBefore = InitialTimingDifferenceMs
    /\ devTag = InitialTag
    /\ posTag = InitialTag
    /\ devOutcomes = {InitialTimingDifferenceMs}
    /\ devLoads = << >>
    /\ posLoads = << >>
    /\ labelTick = [deviation |-> 0, playhead |-> 0]

(***************************************************************************)
(* PocketAudioProcessor::processBlock.  The message thread runs while the  *)
(* call does, so the call is one action per step that reads or writes an   *)
(* atomic: its entry, each store, each iteration of the range-for, and     *)
(* its return.                                                             *)
(***************************************************************************)
\* Begins only when timerCallback is not running and no lambda is queued,
\* as a call that took a lock shared with the message thread would.
ProcessBlockWhenEditorIdle(in) ==
    /\ tpc = "idle"
    /\ messageQueue = << >>
    /\ pc \in {"idle", "done"}
    /\ blockNo < MaxBlocks
    /\ block' = in
    /\ it' = 1
    /\ blockNo' = blockNo + 1
    /\ devBefore' = lastTimingDifferenceMs
    /\ pc' = IF TransportPlaying(in) THEN "storePpq" ELSE "storeStopped"
    /\ UNCHANGED <<sharedVars, editorVars>>

\* Entry: the host's inputs are read and the condition of the outer if is
\* evaluated.
ProcessBlock(in) ==
    /\ pc \in {"idle", "done"}
    /\ blockNo < MaxBlocks
    /\ block' = in
    /\ it' = 1
    /\ blockNo' = blockNo + 1
    /\ devBefore' = lastTimingDifferenceMs
    /\ pc' = IF TransportPlaying(in) THEN "storePpq" ELSE "storeStopped"
    /\ UNCHANGED <<sharedVars, editorVars>>

\* currentPpqPosition.store(positionInfo.ppqPosition), then the tempo check.
StorePpq ==
    /\ pc = "storePpq"
    /\ currentPpqPosition' = block.ppqPosition
    /\ posTag' = [blk |-> blockNo, idx |-> 0, final |-> TRUE]
    /\ pc' = IF TempoValid(block.bpm) THEN "forEach" ELSE "storeZero"
    /\ UNCHANGED <<block, it, blockNo, devBefore, lastTimingDifferenceMs,
                   devTag, devOutcomes, editorVars>>

\* Stores the mean of the published deviation and the note-on's, as a
\* smoothed display value would be.
NoteOnSmoothed ==
    /\ pc = "forEach"
    /\ it <= Len(block.midiMessages)
    /\ IsNoteOn(EventAt(block.midiMessages, it))
    /\ lastTimingDifferenceMs' =
            DDiv(DAdd(lastTimingDifferenceMs,
                      MsDifference(block, EventAt(block.midiMessages, it))),
                 FromInt(2))
    /\ devTag' = [blk |-> blockNo, idx |-> it,
                  final |-> \A j \in (it + 1)..Len(block.midiMessages) :
                                ~IsNoteOn(EventAt(block.midiMessages, j))]
    /\ it' = it + 1
    /\ UNCHANGED <<pc, block, blockNo, devBefore, currentPpqPosition, posTag,
                   devOutcomes, editorVars>>

\* One iteration of the range-for on a note-on:
\* lastTimingDifferenceMs.store(msDifference).
NoteOn ==
    /\ pc = "forEach"
    /\ it <= Len(block.midiMessages)
    /\ IsNoteOn(EventAt(block.midiMessages, it))
    /\ lastTimingDifferenceMs' =
            MsDifference(block, EventAt(block.midiMessages, it))
    /\ devTag' = [blk |-> blockNo, idx |-> it,
                  final |-> \A j \in (it + 1)..Len(block.midiMessages) :
                                ~IsNoteOn(EventAt(block.midiMessages, j))]
    /\ it' = it + 1
    /\ UNCHANGED <<pc, block, blockNo, devBefore, currentPpqPosition, posTag,
                   devOutcomes, editorVars>>

\* Stays on a message that is not a note-on instead of going on to the
\* next one.
OtherMessageStays ==
    /\ pc = "forEach"
    /\ it <= Len(block.midiMessages)
    /\ ~IsNoteOn(EventAt(block.midiMessages, it))
    /\ it' = it
    /\ UNCHANGED <<pc, block, blockNo, devBefore, sharedVars, editorVars>>

\* One iteration of the range-for on any other message.
OtherMessage ==
    /\ pc = "forEach"
    /\ it <= Len(block.midiMessages)
    /\ ~IsNoteOn(EventAt(block.midiMessages, it))
    /\ it' = it + 1
    /\ UNCHANGED <<pc, block, blockNo, devBefore, sharedVars, editorVars>>

\* Clears the MIDI buffer once the range-for is over (midiMessages.clear()),
\* as a plugin that consumes its MIDI input does.
EndOfBufferClears ==
    /\ pc = "forEach"
    /\ it > Len(block.midiMessages)
    /\ pc' = "done"
    /\ block' = [block EXCEPT !.midiMessages = << >>]
    /\ devOutcomes' = devOutcomes \cup {lastTimingDifferenceMs}
    /\ UNCHANGED <<it, blockNo, devBefore, lastTimingDifferenceMs,
                   currentPpqPosition, devTag, posTag, editorVars>>

\* Stores 0.0 at the end of a range-for that met no note-on.
EndOfBufferResets ==
    /\ pc = "forEach"
    /\ it > Len(block.midiMessages)
    /\ pc' = "done"
    /\ IF devTag.blk = blockNo
       THEN /\ devOutcomes' = devOutcomes \cup {lastTimingDifferenceMs}
            /\ UNCHANGED <<lastTimingDifferenceMs, devTag>>
       ELSE /\ lastTimingDifferenceMs' = FromInt(0)
            /\ devTag' = [blk |-> blockNo, idx |-> 0, final |-> TRUE]
            /\ devOutcomes' = devOutcomes \cup {FromInt(0)}
    /\ UNCHANGED <<block, it, blockNo, devBefore, currentPpqPosition, posTag,
                   editorVars>>

\* The range-for is over and processBlock returns.
EndOfBuffer ==
    /\ pc = "forEach"
    /\ it > Len(block.midiMessages)
    /\ pc' = "done"
    /\ devOutcomes' = devOutcomes \cup {lastTimingDifferenceMs}
    /\ UNCHANGED <<block, it, blockNo, devBefore, lastTimingDifferenceMs,
                   currentPpqPosition, devTag, posTag, editorVars>>

\* BPM is not positive: lastTimingDifferenceMs.store(0.0).
StoreZero ==
    /\ pc = "storeZero"
    /\ lastTimingDifferenceMs' = FromInt(0)
    /\ devTag' = [blk |-> blockNo, idx |-> 0, final |-> TRUE]
    /\ pc' = "done"
    /\ devOutcomes' = devOutcomes \cup {FromInt(0)}
    /\ UNCHANGED <<block, it, blockNo, devBefore, currentPpqPosition, posTag,
                   editorVars>>

\* Stores 0.0 to the deviation where the code stores the position, so the
\* not-playing branch writes the deviation without having written the
\* position.
StoreStoppedDeviationFirst ==
    /\ pc = "storeStopped"
    /\ lastTimingDifferenceMs' = FromInt(0)
    /\ devTag' = [blk |-> blockNo, idx |-> 0, final |-> FALSE]
    /\ pc' = "storeStoppedZero"
    /\ UNCHANGED <<block, it, blockNo, devBefore, currentPpqPosition, posTag,
                   devOutcomes, editorVars>>

\* Not playing or no playhead: currentPpqPosition.store(-1.0).
StoreStopped ==
    /\ pc = "storeStopped"
    /\ currentPpqPosition' = FromInt(-1)
    /\ posTag' = [blk |-> blockNo, idx |-> 0, final |-> TRUE]
    /\ pc' = "storeStoppedZero"
    /\ UNCHANGED <<block, it, blockNo, devBefore, lastTimingDifferenceMs,
                   devTag, devOutcomes, editorVars>>

\* Not playing or no playhead: lastTimingDifferenceMs.store(0.0).
StoreStoppedZero ==
    /\ pc = "storeStoppedZero"
    /\ lastTimingDifferenceMs' = FromInt(0)
    /\ devTag' = [blk |-> blockNo, idx |-> 0, final |-> TRUE]
    /\ pc' = "done"
    /\ devOutcomes' = devOutcomes \cup {FromInt(0)}
    /\ UNCHANGED <<block, it, blockNo, devBefore, currentPpqPosition, posTag,
                   editorVars>>

AudioThread ==
    \/ StorePpq
    \/ NoteOn
    \/ OtherMessage
    \/ EndOfBuffer
    \/ StoreZero
    \/ StoreStopped
    \/ StoreStoppedZero

(***************************************************************************)
(* The audio thread alone, over every input.                               *)
(***************************************************************************)
Next ==
    \/ \E in \in BlockInputs : ProcessBlock(in)
    \/ AudioThread

Spec == Init /\ [][Next]_vars


(***************************************************************************)
(* PocketAudioProcessorEditor::timerCallback and the message loop.  Both   *)
(* run on the message thread: a queued lambda runs only between two        *)
(* callbacks, while the audio thread runs at any time.                     *)
(***************************************************************************)
\* History: the deviation the call in progress, if any, leaves published
\* when it returns.
RunningOutcome ==
    LET midi == block.midiMessages
        on == {j \in 1..Len(midi) : IsNoteOn(EventAt(midi, j))}
        last == CHOOSE j \in on : \A h \in on : h <= j
        loop == IF on = {} THEN lastTimingDifferenceMs
                ELSE MsDifference(block, EventAt(midi, last))
    IN  CASE pc \in {"idle", "done"} -> {}
          [] pc = "forEach" -> {loop}
          [] pc = "storePpq" ->
                {IF TempoValid(block.bpm) THEN loop ELSE FromInt(0)}
          [] OTHER -> {FromInt(0)}

\* Reads the copy the previous callback took instead of the atomic.
StaleTimingDifferenceMs ==
    [val |-> differenceMs,
     tag |-> IF devLoads = << >> THEN InitialTag
             ELSE devLoads[Len(devLoads)].got]

\* audioProcessor.lastTimingDifferenceMs.load(): the value, with the store
\* that wrote it.
LoadTimingDifferenceMs == [val |-> lastTimingDifferenceMs, tag |-> devTag]

\* Reads the copy the previous callback took instead of the atomic.
StalePpqPosition ==
    [val |-> ppq,
     tag |-> IF posLoads = << >> THEN InitialTag
             ELSE posLoads[Len(posLoads)].got]

\* audioProcessor.currentPpqPosition.load()
LoadPpqPosition == [val |-> currentPpqPosition, tag |-> posTag]

threshold == Rat(1, 1000)

\* Tests abs(differenceMs) > threshold instead of
\* differenceMs < -threshold.
EarlyStringOfMagnitude(d) ==
    IF DLess(threshold, DAbs(d)) THEN Ms(FormatFixed(DAbs(d), 1))
    ELSE EmptyString

EarlyString(d) ==
    IF DLess(d, DNeg(threshold)) THEN Ms(FormatFixed(DAbs(d), 1))
    ELSE EmptyString

LateString(d) ==
    IF DLess(d, DNeg(threshold)) THEN EmptyString
    ELSE IF DLess(threshold, d) THEN PlusMs(FormatFixed(d, 1))
    ELSE EmptyString

\* Formats the position without the test ppq >= 0.0.
PlayheadStringUnchecked(p) == Ppq(FormatFixed(p, 3))

PlayheadString(p) ==
    IF DLessEq(FromInt(0), p) THEN Ppq(FormatFixed(p, 3)) ELSE Stopped

\* The first half of timerCallback: load the deviation, build the two
\* strings, queue the lambda that sets the two deviation labels.
TimerLoadDeviation ==
    /\ editor = "alive"
    /\ tpc = "idle"
    /\ tickNo < MaxTicks
    /\ tickNo' = tickNo + 1
    /\ LET loaded == LoadTimingDifferenceMs
       IN  /\ differenceMs' = loaded.val
           /\ devLoads' = Append(devLoads,
                    [val |-> loaded.val, got |-> loaded.tag,
                     latest |-> devTag,
                     outcome |-> loaded.val
                                    \in devOutcomes \cup RunningOutcome])
           \* the lambda's captures; tick is history: the callback that
           \* queued it
           /\ messageQueue' = Append(messageQueue,
                    [label |-> "deviation", tick |-> tickNo + 1,
                     earlyString |-> EarlyString(loaded.val),
                     lateString |-> LateString(loaded.val),
                     playheadString |-> EmptyString])
    /\ tpc' = "loadPpq"
    /\ UNCHANGED <<audioVars, sharedVars, ppq, earlyMsLabel, lateMsLabel,
                   playheadLabel, editor, posLoads, labelTick>>

\* Reads the position with exchange(-1.0), which clears the atomic, instead
\* of load().
TimerExchangePosition ==
    /\ tpc = "loadPpq"
    /\ LET loaded == LoadPpqPosition
       IN  /\ ppq' = loaded.val
           /\ posLoads' = Append(posLoads,
                    [val |-> loaded.val, got |-> loaded.tag,
                     latest |-> posTag])
           /\ messageQueue' = Append(messageQueue,
                    [label |-> "playhead", tick |-> tickNo,
                     earlyString |-> EmptyString,
                     lateString |-> EmptyString,
                     playheadString |-> PlayheadString(loaded.val)])
    /\ currentPpqPosition' = FromInt(-1)
    /\ tpc' = "idle"
    /\ UNCHANGED <<audioVars, lastTimingDifferenceMs, devTag, posTag,
                   devOutcomes, differenceMs, earlyMsLabel, lateMsLabel,
                   playheadLabel, tickNo, editor, devLoads, labelTick>>

\* The second half of timerCallback: load the position, build the string,
\* queue the lambda that sets the playhead label.
TimerLoadPosition ==
    /\ tpc = "loadPpq"
    /\ LET loaded == LoadPpqPosition
       IN  /\ ppq' = loaded.val
           /\ posLoads' = Append(posLoads,
                    [val |-> loaded.val, got |-> loaded.tag,
                     latest |-> posTag])
           /\ messageQueue' = Append(messageQueue,
                    [label |-> "playhead", tick |-> tickNo,
                     earlyString |-> EmptyString,
                     lateString |-> EmptyString,
                     playheadString |-> PlayheadString(loaded.val)])
    /\ tpc' = "idle"
    /\ UNCHANGED <<audioVars, sharedVars, differenceMs, earlyMsLabel,
                   lateMsLabel, playheadLabel, tickNo, editor, devLoads,
                   labelTick>>

\* Runs the newest queued lambda, as a stack of pending calls would.
DispatchNewestFirst ==
    /\ editor = "alive"
    /\ tpc = "idle"
    /\ messageQueue # << >>
    /\ LET lambda == messageQueue[Len(messageQueue)]
       IN  /\ IF lambda.label = "deviation"
              THEN /\ earlyMsLabel' = lambda.earlyString
                   /\ lateMsLabel' = lambda.lateString
                   /\ UNCHANGED playheadLabel
              ELSE /\ playheadLabel' = lambda.playheadString
                   /\ UNCHANGED <<earlyMsLabel, lateMsLabel>>
           /\ labelTick' = [labelTick EXCEPT ![lambda.label] = lambda.tick]
    /\ messageQueue' = SubSeq(messageQueue, 1, Len(messageQueue) - 1)
    /\ UNCHANGED <<audioVars, sharedVars, tpc, differenceMs, ppq, tickNo,
                   editor, devLoads, posLoads>>

\* The message loop runs the oldest queued lambda.
DispatchMessage ==
    /\ editor = "alive"
    /\ tpc = "idle"
    /\ messageQueue # << >>
    /\ LET lambda == Head(messageQueue)
       IN  /\ IF lambda.label = "deviation"
              THEN /\ earlyMsLabel' = lambda.earlyString
                   /\ lateMsLabel' = lambda.lateString
                   /\ UNCHANGED playheadLabel
              ELSE /\ playheadLabel' = lambda.playheadString
                   /\ UNCHANGED <<earlyMsLabel, lateMsLabel>>
           /\ labelTick' = [labelTick EXCEPT ![lambda.label] = lambda.tick]
    /\ messageQueue' = Tail(messageQueue)
    /\ UNCHANGED <<audioVars, sharedVars, tpc, differenceMs, ppq, tickNo,
                   editor, devLoads, posLoads>>

MessageThread ==
    \/ TimerLoadDeviation
    \/ TimerLoadPosition
    \/ DispatchMessage

(***************************************************************************)
(* The audio thread and the message thread together, over fewer inputs:    *)
(* a playing transport at 120 BPM with two note-ons, one note-on or a      *)
(* note-off, a tempo of 0, a position before 0 (count-in), and no          *)
(* playhead.                                                               *)
(***************************************************************************)
NoteOnAt(samplePosition) ==
    [samplePosition |-> samplePosition, isNoteOn |-> TRUE]

NoteOffAt(samplePosition) ==
    [samplePosition |-> samplePosition, isNoteOn |-> FALSE]

BlockInputsC ==
    Blocks({"ok"}, {TRUE}, {FromInt(120)}, {FromInt(4)}, {FromInt(44100)},
           { <<NoteOnAt(4410), NoteOnAt(11025)>>, <<NoteOnAt(11025)>>,
             <<NoteOffAt(4410)>> })
    \cup
    Blocks({"ok"}, {TRUE}, {FromInt(0)}, {FromInt(4)}, {FromInt(44100)},
           { <<NoteOnAt(4410)>> })
    \cup
    Blocks({"ok"}, {TRUE}, {FromInt(120)}, {Rat(-9, 2)}, {FromInt(44100)},
           { <<NoteOnAt(0)>> })
    \cup
    Blocks({"null"}, {FALSE}, {FromInt(120)}, {FromInt(4)}, {FromInt(44100)},
           { << >> })

NextC ==
    \/ \E in \in BlockInputsC : ProcessBlock(in)
    \/ AudioThread
    \/ MessageThread

SpecC == Init /\ [][NextC]_vars

(***************************************************************************)
(* Properties of a completed processBlock call.  In a state with           *)
(* pc = "done", block holds the inputs of the call that has just           *)
(* returned and devBefore the deviation that was published when it began.  *)
(***************************************************************************)
\* The block's note-ons, by index in arrival order.
NoteOnIndexes(midi) == {j \in 1..Len(midi) : midi[j].isNoteOn}

\* The note-on that comes last in arrival order (there is one).
LastNoteOnOf(midi) ==
    midi[CHOOSE j \in NoteOnIndexes(midi) :
            \A h \in NoteOnIndexes(midi) : h <= j]

\* The host reports a playing transport.
Playing(b) == b.playHead = "ok" /\ b.isPlaying = TRUE

\* The tempo is a positive number.
PositiveTempo(b) == b.bpm.k = "fin" /\ b.bpm.n > 0

\* p = positionInQuarterNotes + (samplePosition / sampleRate) * (tempoBpm / 60)
NotePosition(b, e) ==
    DAdd(b.ppqPosition,
         DMul(DDiv(FromInt(e.samplePosition), b.sampleRate),
              DDiv(b.bpm, FromInt(60))))

\* (p - round(p)) * 60000 / tempoBpm
DeviationMs(b, e) ==
    DDiv(DMul(DSub(NotePosition(b, e), StdRound(NotePosition(b, e))),
              FromInt(60000)),
         b.bpm)

\* C1: a call with no playhead, a playhead that gives no position, or a
\* stopped transport leaves position -1 and deviation 0 published, whatever
\* the MIDI buffer holds and whatever was published before.
C1_NotPlayingPublishesDefaults ==
    (pc = "done" /\ (block.playHead = "null" \/ block.playHead = "fails"
                        \/ block.isPlaying = FALSE))
        => /\ currentPpqPosition = FromInt(-1)
           /\ lastTimingDifferenceMs = FromInt(0)

\* C1 witness: a stopped transport, a buffer with a note-on, a non-zero
\* deviation and a position published before the call.
C1_Witness ==
    /\ pc = "done"
    /\ block.playHead = "ok" /\ block.isPlaying = FALSE
    /\ NoteOnIndexes(block.midiMessages) # {}
    /\ devBefore # FromInt(0)
    /\ blockNo > 1
    /\ currentPpqPosition = FromInt(-1)
    /\ lastTimingDifferenceMs = FromInt(0)

\* C2: a call with a playing transport and a tempo <= 0 leaves deviation 0
\* and the snapshot's position published, whatever note-ons the buffer holds.
C2_InvalidTempoPublishesZero ==
    (pc = "done" /\ Playing(block) /\ block.bpm.n <= 0)
        => /\ lastTimingDifferenceMs = FromInt(0)
           /\ currentPpqPosition = block.ppqPosition

\* C2 witness: a negative tempo, a note-on off the grid, and a non-zero
\* deviation published before the call.
C2_Witness ==
    /\ pc = "done"
    /\ Playing(block) /\ block.bpm.n < 0
    /\ NoteOnIndexes(block.midiMessages) # {}
    /\ DeviationMs(block, LastNoteOnOf(block.midiMessages)) # FromInt(0)
    /\ devBefore # FromInt(0)
    /\ lastTimingDifferenceMs = FromInt(0)
    /\ currentPpqPosition = block.ppqPosition

\* C3: a call with a playing transport, a positive tempo and a note-on
\* leaves published (p - round(p)) * 60000 / tempoBpm, p being the position
\* of the note-on that comes last in arrival order.
C3_DeviationOfLastNoteOn ==
    (pc = "done" /\ Playing(block) /\ PositiveTempo(block)
        /\ NoteOnIndexes(block.midiMessages) # {})
        => lastTimingDifferenceMs =
                DeviationMs(block, LastNoteOnOf(block.midiMessages))

\* C3 witness: a note-on 0.1 s into the block at 120 BPM from position 4
\* is 0.2 quarter notes late: 100 ms.
C3_Witness ==
    /\ pc = "done"
    /\ Playing(block) /\ PositiveTempo(block)
    /\ block.sampleRate = FromInt(44100)
    /\ NoteOnIndexes(block.midiMessages) # {}
    /\ LastNoteOnOf(block.midiMessages).samplePosition = 4410
    /\ block.bpm = FromInt(120) /\ block.ppqPosition = FromInt(4)
    /\ lastTimingDifferenceMs = FromInt(100)

\* C4: with several note-ons in one block, the deviation published after
\* the call is the one the last note-on alone gives, whatever the offsets of
\* the earlier ones.
C4_OnlyLastNoteOnCounts ==
    (pc = "done" /\ Playing(block) /\ PositiveTempo(block)
        /\ Cardinality(NoteOnIndexes(block.midiMessages)) >= 2)
        => lastTimingDifferenceMs =
                MsDifference(block, LastNoteOnOf(block.midiMessages))

\* C4 witness: two note-ons at different offsets with different
\* deviations; the second one's is published.
C4_Witness ==
    /\ pc = "done"
    /\ Playing(block) /\ PositiveTempo(block)
    /\ Len(block.midiMessages) = 2
    /\ NoteOnIndexes(block.midiMessages) = {1, 2}
    /\ block.midiMessages[1].samplePosition
            # block.midiMessages[2].samplePosition
    /\ IsFinite(lastTimingDifferenceMs)
    /\ lastTimingDifferenceMs = DeviationMs(block, block.midiMessages[2])
    /\ lastTimingDifferenceMs # DeviationMs(block, block.midiMessages[1])

\* C5: a call with a playing transport and a positive tempo whose buffer
\* holds no note-on makes no store to the deviation: the value published
\* before the call stays, and is not reset to 0.
C5_NoNoteOnKeepsDeviation ==
    (pc = "done" /\ Playing(block) /\ PositiveTempo(block)
        /\ NoteOnIndexes(block.midiMessages) = {})
        => /\ lastTimingDifferenceMs = devBefore
           /\ devTag.blk < blockNo

\* C5 witness: a buffer of note-offs only, after a call that published a
\* non-zero deviation.
C5_Witness ==
    /\ pc = "done"
    /\ Playing(block) /\ PositiveTempo(block)
    /\ Len(block.midiMessages) > 0
    /\ NoteOnIndexes(block.midiMessages) = {}
    /\ devBefore # FromInt(0)
    /\ lastTimingDifferenceMs = devBefore

\* The current call has stored the deviation of a note-on, and that
\* note-on is block.midiMessages[devTag.idx].
NoteOnPublished ==
    /\ pc \in {"forEach", "done"}
    /\ devTag.blk = blockNo
    /\ devTag.idx > 0

\* C6 (as claimed): whenever the deviation of a note-on is published, its
\* magnitude is at most 30000 / tempoBpm, it is negative exactly when the
\* note position is below its nearest grid line, and positive exactly when
\* the note position is above it.
C6_DeviationBoundedAndSigned ==
    NoteOnPublished =>
        LET p == NotePosition(block, block.midiMessages[devTag.idx])
            grid == StdRound(p)
        IN  /\ DLessEq(DAbs(DSub(p, grid)), Rat(1, 2))
            /\ DLessEq(DAbs(lastTimingDifferenceMs),
                       DDiv(FromInt(30000), block.bpm))
            /\ DLess(lastTimingDifferenceMs, FromInt(0)) <=> DLess(p, grid)
            /\ DLess(FromInt(0), lastTimingDifferenceMs) <=> DLess(grid, p)

\* The same, for the calls whose sample rate is not 0.
C6_HoldsForNonZeroSampleRate ==
    (NoteOnPublished /\ block.sampleRate # FromInt(0))
        => C6_DeviationBoundedAndSigned

\* C7: tempo 120, position 4.0, sample rate 44100 and a last note-on at
\* sample 11025: the note position is 4.5, std::round takes it to grid
\* line 5, and -250 ms is published, every time.
C7_TieRoundsAwayFromZero ==
    (pc = "done" /\ Playing(block)
        /\ block.bpm = FromInt(120) /\ block.ppqPosition = FromInt(4)
        /\ block.sampleRate = FromInt(44100)
        /\ NoteOnIndexes(block.midiMessages) # {}
        /\ LastNoteOnOf(block.midiMessages).samplePosition = 11025)
        => /\ NotePosition(block, LastNoteOnOf(block.midiMessages))
                = Rat(9, 2)
           /\ lastTimingDifferenceMs = FromInt(-250)

\* C7 witness: the call of the claim has returned, after a call that
\* published another deviation.
C7_Witness ==
    /\ pc = "done" /\ Playing(block)
    /\ block.bpm = FromInt(120) /\ block.ppqPosition = FromInt(4)
    /\ block.sampleRate = FromInt(44100)
    /\ block.midiMessages = <<[samplePosition |-> 11025, isNoteOn |-> TRUE]>>
    /\ devBefore = FromInt(100)
    /\ lastTimingDifferenceMs = FromInt(-250)

\* C8 (as claimed): the published deviation is always a finite number.
C8_DeviationAlwaysFinite == IsFinite(lastTimingDifferenceMs)

(***************************************************************************)
(* Properties of the two atomics as the message thread sees them.          *)
(***************************************************************************)
\* Store s is store t or an earlier store to the same atomic.
TagLeq(s, t) == s.blk < t.blk \/ (s.blk = t.blk /\ s.idx <= t.idx)

\* C9 (as claimed): every value timerCallback loads is the value a call
\* leaves published for that atomic when it returns (it was written by the
\* call's last store to that atomic, or equals what a completed call or
\* the call in progress leaves published), or the initial value; the
\* deviation of a note-on that is not the last one of its block is never
\* loaded.
C9_OnlyBlockOutcomesObserved ==
    /\ \A j \in DOMAIN devLoads :
            devLoads[j].got.final \/ devLoads[j].outcome
    /\ \A j \in DOMAIN posLoads : posLoads[j].got.final

\* C10: each load returns the value of the latest store to that atomic
\* completed before the load, or of a later one, and the successive loads
\* of one atomic never go back to an earlier store.
C10_LoadsNeverGoBack ==
    /\ \A j \in DOMAIN devLoads :
            /\ TagLeq(devLoads[j].latest, devLoads[j].got)
            /\ \A h \in 1..(j - 1) : TagLeq(devLoads[h].got, devLoads[j].got)
    /\ \A j \in DOMAIN posLoads :
            /\ TagLeq(posLoads[j].latest, posLoads[j].got)
            /\ \A h \in 1..(j - 1) : TagLeq(posLoads[h].got, posLoads[j].got)

\* C10 witness: two callbacks with stores to both atomics between them;
\* the second callback loads what the later stores wrote.
C10_Witness ==
    /\ Len(devLoads) = 2 /\ Len(posLoads) = 2
    /\ devLoads[1].got.blk = 1 /\ devLoads[2].got.blk = 2
    /\ posLoads[1].got.blk = 1 /\ posLoads[2].got.blk = 2
    /\ devLoads[2].val # devLoads[1].val
    /\ differenceMs = devLoads[2].val
    /\ lastTimingDifferenceMs = differenceMs

(***************************************************************************)
(* The message thread when it is given time.  juce::Timer calls            *)
(* timerCallback 30 times a second for as long as the editor lives, the    *)
(* callback runs to its end, and the message loop runs the queued          *)
(* lambdas.  Nothing is assumed of the audio thread: the host may stop     *)
(* calling processBlock at any time.                                       *)
(***************************************************************************)
\* ENABLED <<TimerLoadDeviation>>_vars: the callback is not running and the
\* timer has a callback still to make.
TimerDue == editor = "alive" /\ tpc = "idle" /\ tickNo < MaxTicks

\* WF_vars(TimerLoadDeviation), with ENABLED written out.
TimerLoadDeviationFair ==
    []<>(~TimerDue) \/ []<><<TimerLoadDeviation>>_vars

Fairness ==
    /\ TimerLoadDeviationFair
    /\ WF_vars(TimerLoadPosition)
    /\ WF_vars(DispatchMessage)

\* The blocks of the fair specification: a playing transport at 120 BPM
\* with a note-on and a note-off, a tempo of 0, and no playhead.
BlockInputsFair ==
    Blocks({"ok"}, {TRUE}, {FromInt(120)}, {FromInt(4)}, {FromInt(44100)},
           { <<NoteOnAt(4410), NoteOffAt(4410)>> })
    \cup
    Blocks({"ok"}, {TRUE}, {FromInt(0)}, {Rat(9, 2)}, {FromInt(44100)},
           { <<NoteOnAt(4410)>> })
    \cup
    Blocks({"null"}, {FALSE}, {FromInt(120)}, {FromInt(4)}, {FromInt(44100)},
           { << >> })

NextFair ==
    \/ \E in \in BlockInputsFair : ProcessBlock(in)
    \/ AudioThread
    \/ MessageThread

SpecFair == Init /\ [][NextFair]_vars /\ Fairness

\* No processBlock call is in progress.
ProducerQuiet == pc \in {"idle", "done"}

\* The timer has a callback still to make.
TimerFires == tickNo < MaxTicks

\* timerCallback's two locals hold what is published now.
LoadedLastPublished ==
    /\ differenceMs = lastTimingDifferenceMs
    /\ ppq = currentPpqPosition

\* C11: when no call is in progress and the timer still fires, then, unless
\* the host begins another call, timerCallback comes to load the published
\* deviation and the published position; and once it has, every later
\* callback loads these same two values for as long as no call begins.
C11_EventuallyLoadsLastPublished ==
    /\ (ProducerQuiet /\ TimerFires) ~> (LoadedLastPublished \/ ~ProducerQuiet)
    /\ [][(ProducerQuiet /\ LoadedLastPublished /\ ProducerQuiet')
            => LoadedLastPublished']_vars

\* C11 witness: the last call has returned with a deviation and a position
\* that differ from what the callback before loaded, and the callback after
\* it has loaded both.
C11_Witness ==
    /\ pc = "done" /\ tpc = "idle"
    /\ Len(devLoads) = 2 /\ Len(posLoads) = 2
    /\ devLoads[1].val # devLoads[2].val
    /\ posLoads[1].val # posLoads[2].val
    /\ devLoads[2].got = devTag /\ devTag.blk = blockNo
    /\ posLoads[2].got = posTag /\ posTag.blk = blockNo
    /\ LoadedLastPublished

(***************************************************************************)
(* The audio thread's independence of the message thread.                  *)
(***************************************************************************)
\* The host may begin a call: none is in progress (and the model's bound
\* on the number of calls is not reached).
CallMayBegin == pc \in {"idle", "done"} /\ blockNo < MaxBlocks

\* C12: in every reachable state, wherever timerCallback is and however
\* many lambdas are queued, the audio thread has its next step: a call may
\* begin, with any input, when none is in progress, and a call in progress
\* can take its next step, up to its return.
C12_ProducerNeverWaits ==
    /\ CallMayBegin => \A in \in BlockInputsC : ENABLED ProcessBlock(in)
    /\ pc \notin {"idle", "done"} => ENABLED AudioThread

\* C12 witness: a call is at its store of a note-on's deviation while
\* timerCallback is between its two loads and two lambdas of the callback
\* before are still queued.
C12_Witness ==
    /\ pc = "forEach"
    /\ it <= Len(block.midiMessages)
    /\ block.midiMessages[it].isNoteOn
    /\ tpc = "loadPpq"
    /\ Len(messageQueue) = 3
    /\ ENABLED NoteOn

\* The two atomics, with the history of the stores made to them.
slots == <<lastTimingDifferenceMs, currentPpqPosition, devTag, posTag>>

\* C13: no step of timerCallback and no queued lambda stores to either
\* atomic, and every step that stores to one is a step of a processBlock
\* call in progress.
C13_SingleWriter ==
    [][/\ MessageThread => UNCHANGED slots
       /\ slots' # slots => AudioThread]_vars

\* C13 witness: two callbacks have run and their four lambdas have been
\* applied to the labels, and the atomics still hold the non-default values
\* the second callback loaded.
C13_Witness ==
    /\ tickNo = 2 /\ tpc = "idle" /\ messageQueue = << >>
    /\ devLoads[2].val = lastTimingDifferenceMs
    /\ posLoads[2].val = currentPpqPosition
    /\ lastTimingDifferenceMs # InitialTimingDifferenceMs
    /\ currentPpqPosition # InitialPpqPosition
    /\ playheadLabel.txt = "PPQ"
    /\ lateMsLabel # EmptyString

(***************************************************************************)
(* The position as a sign of the transport's state.                        *)
(***************************************************************************)
\* The published position was stored by the call whose inputs block holds.
PositionOfThisCall == blockNo > 0 /\ posTag.blk = blockNo

\* C14 (as claimed): a negative published position was stored by a call
\* whose transport was not playing (or gave no position), and timerCallback
\* makes the playhead text "Stopped" for the position of such a call only,
\* a PPQ text for the position of every call whose transport was playing.
C14_NegativePositionMeansStopped ==
    /\ (PositionOfThisCall /\ DLess(currentPpqPosition, FromInt(0)))
            => ~Playing(block)
    /\ \A j \in DOMAIN posLoads :
            posLoads[j].got = posTag /\ PositionOfThisCall
                => (PlayheadString(posLoads[j].val) = Stopped
                        <=> ~Playing(block))

\* The same, for the calls whose snapshot position is not before 0.
C14_HoldsForPositionsFromZero ==
    DLessEq(FromInt(0), block.ppqPosition)
        => C14_NegativePositionMeansStopped

(***************************************************************************)
(* What a processBlock call leaves alone, and that it returns.             *)
(***************************************************************************)
\* C15: no step of a processBlock call, in any of its branches, changes
\* the MIDI buffer the host handed in: its events, their order and their
\* sample positions stay as they were.
C15_MidiBufferUnmodified ==
    [][AudioThread => block'.midiMessages = block.midiMessages]_vars

\* C15 witness: a call has gone through a buffer of a note-off and a
\* note-on, has stored the note-on's deviation and has returned; the
\* buffer holds the two events.
C15_Witness ==
    /\ pc = "done"
    /\ Playing(block) /\ PositiveTempo(block)
    /\ it = 3
    /\ block.midiMessages = <<NoteOffAt(4410), NoteOnAt(11025)>>
    /\ devTag = [blk |-> blockNo, idx |-> 2, final |-> TRUE]

\* A processBlock call is in progress.
InCall == pc \notin {"idle", "done"}

\* The number of steps the call in progress has at most before it
\* returns: one per store outside the loop, one per event still to come,
\* and the return.
StepsLeft ==
    CASE pc = "storePpq" -> Len(block.midiMessages) + 2
      [] pc = "forEach" -> Len(block.midiMessages) + 2 - it
      [] pc = "storeStopped" -> 2
      [] pc \in {"storeZero", "storeStoppedZero"} -> 1
      [] OTHER -> 0

\* C17: every processBlock call that begins returns, whatever the
\* transport, the tempo, the sample rate and the buffer are, after one pass
\* over the buffer: a call in progress always has a next step that moves it
\* on, and each step brings the return nearer, which is at most two steps
\* more than the buffer has events away when the call begins.
C17_ProcessBlockReturns ==
    /\ [](InCall => ENABLED <<AudioThread>>_vars)
    /\ [](StepsLeft >= 0 /\ (StepsLeft = 0 <=> ~InCall))
    /\ [][AudioThread => StepsLeft' < StepsLeft]_vars

\* C17 witness: a call with a sample rate of 0 and two note-ons has gone
\* over its buffer and returned.
C17_Witness ==
    /\ pc = "done"
    /\ Playing(block) /\ PositiveTempo(block)
    /\ block.sampleRate = FromInt(0)
    /\ NoteOnIndexes(block.midiMessages) = {1, 2}
    /\ it = 3
    /\ ~IsFinite(lastTimingDifferenceMs)

(***************************************************************************)
(* What a call does to the deviation.                                      *)
(***************************************************************************)
\* The call stored the deviation of a note-on of its buffer.
MeasurementPublished == devTag.blk = blockNo /\ devTag.idx > 0

\* The call stored 0.0 and no deviation of a note-on.
ZeroRepublished ==
    /\ devTag.blk = blockNo /\ devTag.idx = 0
    /\ lastTimingDifferenceMs = FromInt(0)

\* The call made no store to the deviation.
NothingStored ==
    /\ devTag.blk < blockNo
    /\ lastTimingDifferenceMs = devBefore

\* C18 (as claimed): every call that has returned has either published a
\* new measurement or republished 0.
C18_MeasuredOrZero ==
    pc = "done" => (MeasurementPublished \/ ZeroRepublished)

\* C18 (amended): every call that has returned has done exactly one of
\* three things: published the deviation of a note-on (playing, tempo > 0,
\* a note-on in the buffer), republished 0 (not playing, or tempo <= 0), or
\* stored nothing, the deviation published before staying (playing,
\* tempo > 0, no note-on in the buffer).
C18_MeasuredZeroOrKept ==
    pc = "done" =>
        LET measures == Playing(block) /\ PositiveTempo(block)
            noteOns == NoteOnIndexes(block.midiMessages)
        IN  /\ MeasurementPublished <=> (measures /\ noteOns # {})
            /\ ZeroRepublished <=> ~measures
            /\ NothingStored <=> (measures /\ noteOns = {})

\* C18 witness: a call with a playing transport, a positive tempo and a
\* buffer of one note-off has returned; it stored nothing and the non-zero
\* deviation of the call before stays published.
C18_Witness ==
    /\ pc = "done"
    /\ Playing(block) /\ PositiveTempo(block)
    /\ block.midiMessages = <<NoteOffAt(4410)>>
    /\ NothingStored
    /\ ~MeasurementPublished /\ ~ZeroRepublished
    /\ IsFinite(lastTimingDifferenceMs)
    /\ lastTimingDifferenceMs # FromInt(0)

\* The deviation as a function of four numbers of one block: the
\* snapshot's position and tempo, the sample rate, and one sample offset.
OwnInputsDeviation(ppqPosition, bpm, sampleRate, samplePosition) ==
    DeviationMs([ppqPosition |-> ppqPosition, bpm |-> bpm,
                 sampleRate |-> sampleRate],
                [samplePosition |-> samplePosition])

\* C19: the deviation a call with a playing transport, a positive tempo
\* and a note-on leaves published is a function of that call's position,
\* tempo, sample rate and last note-on's sample offset alone: whatever calls
\* came before and whatever they left published, it is the same value.
C19_DependsOnOwnInputsOnly ==
    (pc = "done" /\ Playing(block) /\ PositiveTempo(block)
        /\ NoteOnIndexes(block.midiMessages) # {})
        => lastTimingDifferenceMs =
                OwnInputsDeviation(
                    block.ppqPosition, block.bpm, block.sampleRate,
                    LastNoteOnOf(block.midiMessages).samplePosition)

\* C19 witness: the second call of a run, after a call that left -250 ms
\* published: 60 BPM, position -4.5 and a note-on at sample 4410 give
\* -400 ms, as they do in a run where this call is the first.
C19_Witness ==
    /\ pc = "done" /\ blockNo = 2
    /\ devBefore = FromInt(-250)
    /\ Playing(block)
    /\ block.bpm = FromInt(60) /\ block.ppqPosition = Rat(-9, 2)
    /\ block.sampleRate = FromInt(44100)
    /\ block.midiMessages = <<NoteOnAt(4410)>>
    /\ lastTimingDifferenceMs = FromInt(-400)
    /\ OwnInputsDeviation(Rat(-9, 2), FromInt(60), FromInt(44100), 4410)
            = FromInt(-400)

(***************************************************************************)
(* The display.                                                            *)
(***************************************************************************)
\* C16: until the first processBlock call begins, deviation 0 and
\* position -1 are published, every lambda timerCallback queues carries two
\* empty deviation texts or the playhead text "Stopped", and the labels
\* show what the constructor gave them: "", "" and "Stopped".
C16_DefaultsBeforeFirstBlock ==
    blockNo = 0 =>
        /\ lastTimingDifferenceMs = FromInt(0)
        /\ currentPpqPosition = FromInt(-1)
        /\ \A j \in DOMAIN messageQueue :
                IF messageQueue[j].label = "deviation"
                THEN /\ messageQueue[j].earlyString = EmptyString
                     /\ messageQueue[j].lateString = EmptyString
                ELSE messageQueue[j].playheadString = Stopped
        /\ earlyMsLabel = EmptyString
        /\ lateMsLabel = EmptyString
        /\ playheadLabel = Stopped

\* C16 witness: no call has begun, one callback has run to its end and is
\* followed by a second, and the lambdas of the first have been applied.
C16_Witness ==
    /\ blockNo = 0
    /\ tickNo = 2 /\ tpc = "loadPpq"
    /\ Len(messageQueue) = 1
    /\ messageQueue[1].tick = 2
    /\ differenceMs = FromInt(0) /\ ppq = FromInt(-1)
    /\ playheadLabel = Stopped

\* The deviation the callback that queued lambda loaded.
LoadedBy(lambda) == devLoads[lambda.tick].val

\* C20: the early label and the late label are never both non-empty.  The
\* lambda a callback queues after loading deviation d carries a non-empty
\* early text exactly when d < -0.001 and a non-empty late text exactly
\* when d > 0.001 (so both are empty when abs(d) <= 0.001), and the two
\* labels change only together, in the step that applies one such lambda
\* to both.
C20_EarlyAndLateExclusive ==
    /\ [](~(earlyMsLabel # EmptyString /\ lateMsLabel # EmptyString))
    /\ [](\A j \in DOMAIN messageQueue :
            messageQueue[j].label = "deviation" =>
                LET d == LoadedBy(messageQueue[j])
                IN  /\ messageQueue[j].earlyString # EmptyString
                        <=> DLess(d, Rat(-1, 1000))
                    /\ messageQueue[j].lateString # EmptyString
                        <=> DLess(Rat(1, 1000), d)
                    /\ DLessEq(DAbs(d), Rat(1, 1000))
                        => /\ messageQueue[j].earlyString = EmptyString
                           /\ messageQueue[j].lateString = EmptyString)
    /\ [][(earlyMsLabel' # earlyMsLabel \/ lateMsLabel' # lateMsLabel)
            => /\ messageQueue # << >>
               /\ Head(messageQueue).label = "deviation"
               /\ earlyMsLabel' = Head(messageQueue).earlyString
               /\ lateMsLabel' = Head(messageQueue).lateString
               /\ messageQueue' = Tail(messageQueue)]_vars

\* C20 witness: the first callback loaded a late deviation and the second
\* an early one; the lambda of the second has been applied and has
\* emptied the late label as it filled the early one.
C20_Witness ==
    /\ Len(devLoads) = 2
    /\ DLess(FromInt(0), devLoads[1].val)
    /\ DLess(devLoads[2].val, FromInt(0))
    /\ messageQueue = << >>
    /\ earlyMsLabel = [txt |-> "ms", v |-> 2500]
    /\ lateMsLabel = EmptyString

\* The three labels show the texts timerCallback makes of what is
\* published now.
LabelsShowLastPublished ==
    /\ earlyMsLabel = EarlyString(lastTimingDifferenceMs)
    /\ lateMsLabel = LateString(lastTimingDifferenceMs)
    /\ playheadLabel = PlayheadString(currentPpqPosition)

\* Every lambda still queued carries the texts of what is published now.
QueueCarriesLastPublished ==
    \A j \in DOMAIN messageQueue :
        IF messageQueue[j].label = "deviation"
        THEN /\ messageQueue[j].earlyString
                    = EarlyString(lastTimingDifferenceMs)
             /\ messageQueue[j].lateString
                    = LateString(lastTimingDifferenceMs)
        ELSE messageQueue[j].playheadString
                    = PlayheadString(currentPpqPosition)

\* The display has caught up: the labels show the last published values
\* and nothing queued will make them show anything else.
DisplaySettled == LabelsShowLastPublished /\ QueueCarriesLastPublished

\* C21: when no call is in progress and the timer still fires, then, unless
\* the host begins another call, the labels come to show the texts of the
\* last published deviation and position with no other text left in the
\* queue; and once they do, they keep showing them for as long as no call
\* begins.
C21_LabelsEventuallyShowLastPublished ==
    /\ (ProducerQuiet /\ TimerFires) ~> (DisplaySettled \/ ~ProducerQuiet)
    /\ [][(ProducerQuiet /\ DisplaySettled /\ ProducerQuiet')
            => DisplaySettled']_vars

\* C21 witness: the first callback loaded a deviation of a note-on and a
\* position of a playing transport; the last call had no playhead, and
\* after the second callback the labels show "", "" and "Stopped".
C21_Witness ==
    /\ pc = "done" /\ ~Playing(block)
    /\ tickNo = 2 /\ tpc = "idle" /\ messageQueue = << >>
    /\ devLoads[1].val # FromInt(0)
    /\ DLessEq(FromInt(0), posLoads[1].val)
    /\ devLoads[2].got.blk = blockNo /\ posLoads[2].got.blk = blockNo
    /\ earlyMsLabel = EmptyString /\ lateMsLabel = EmptyString
    /\ playheadLabel = Stopped

(***************************************************************************)
(* The editor's lifetime.  The host deletes the editor on the message      *)
(* thread, between two callbacks, while the processor lives on.  The       *)
(* destructor stops the timer; the lambdas already given to callAsync      *)
(* hold the editor's this pointer and stay in the message queue.           *)
(***************************************************************************)
\* ~PocketAudioProcessorEditor: stopTimer().
Destructor ==
    /\ editor = "alive"
    /\ tpc = "idle"
    /\ editor' = "destroyed"
    /\ UNCHANGED <<audioVars, sharedVars, tpc, differenceMs, ppq,
                   messageQueue, earlyMsLabel, lateMsLabel, playheadLabel,
                   tickNo, devLoads, posLoads, labelTick>>

\* The message loop runs the oldest queued lambda after the destructor:
\* setText through a dangling this is undefined behaviour.  Either the
\* write lands in the memory the labels had, or the access faults and the
\* process dies.
DispatchDangling ==
    /\ editor = "destroyed"
    /\ messageQueue # << >>
    /\ messageQueue' = Tail(messageQueue)
    /\ \/ /\ LET lambda == Head(messageQueue)
             IN  /\ IF lambda.label = "deviation"
                    THEN /\ earlyMsLabel' = lambda.earlyString
                         /\ lateMsLabel' = lambda.lateString
                         /\ UNCHANGED playheadLabel
                    ELSE /\ playheadLabel' = lambda.playheadString
                         /\ UNCHANGED <<earlyMsLabel, lateMsLabel>>
                 /\ labelTick' = [labelTick EXCEPT
                                     ![lambda.label] = lambda.tick]
          /\ UNCHANGED editor
       \/ /\ editor' = "crashed"
          /\ UNCHANGED <<earlyMsLabel, lateMsLabel, playheadLabel,
                         labelTick>>
    /\ UNCHANGED <<audioVars, sharedVars, tpc, differenceMs, ppq, tickNo,
                   devLoads, posLoads>>

\* The two threads with an editor that may be deleted; nothing runs in a
\* process that has died.
NextLifetime ==
    \/ editor # "crashed" /\ \E in \in BlockInputsFair : ProcessBlock(in)
    \/ editor # "crashed" /\ AudioThread
    \/ MessageThread
    \/ Destructor
    \/ DispatchDangling

SpecLifetime == Init /\ [][NextLifetime]_vars

\* C22 (as claimed): once the destructor has run, no queued lambda is run
\* against the editor's labels: they are not written again and no access
\* to them brings the process down.
C22_NoUpdateAfterDestructor ==
    [][editor = "destroyed"
        => /\ UNCHANGED <<earlyMsLabel, lateMsLabel, playheadLabel>>
           /\ editor' # "crashed"]_vars

(***************************************************************************)
(* The order of the two atomics.  Both are accessed with the default       *)
(* memory order (sequentially consistent), so the interleaving of the      *)
(* stores and loads is the order every thread sees.                        *)
(***************************************************************************)
\* A store to the deviation is made by a call that has already stored its
\* position, and leaves the position alone.
PositionStoredFirst ==
    devTag' # devTag => /\ devTag'.blk = blockNo
                        /\ posTag.blk = blockNo
                        /\ posTag' = posTag

\* A callback loads the position after it has loaded the deviation.
DeviationLoadedFirst ==
    posLoads' # posLoads => /\ Len(devLoads) = Len(posLoads) + 1
                            /\ Len(posLoads') = Len(devLoads)
                            /\ devLoads' = devLoads

\* The position a callback loaded was written by the call that wrote the
\* deviation it loaded, or by a later call.
PositionNotOlderThanDeviation ==
    /\ Len(posLoads) <= Len(devLoads)
    /\ \A j \in DOMAIN posLoads : devLoads[j].got.blk <= posLoads[j].got.blk

\* C23: every call stores the position before any store to the deviation,
\* every callback loads the deviation before the position, and so the
\* position loaded in a callback is never of an earlier call than the
\* deviation loaded in the same callback.
C23_PositionNeverOlderThanDeviation ==
    /\ [][PositionStoredFirst]_vars
    /\ [][DeviationLoadedFirst]_vars
    /\ []PositionNotOlderThanDeviation

\* A callback has loaded the deviation of the first call and, a call
\* later, the position of the second; another has loaded both from a call
\* that was still running its range-for.
C23_Witness ==
    \E j \in DOMAIN posLoads :
        /\ devLoads[j].got.blk = 1
        /\ devLoads[j].got.idx > 0
        /\ posLoads[j].got.blk = 2

(***************************************************************************)
(* The order of the lambdas.  callAsync posts to the message queue of the  *)
(* message thread, which runs timerCallback and the lambdas one at a time. *)
(***************************************************************************)
\* A callback queues its deviation lambda behind everything queued so far
\* and its playhead lambda right behind its deviation lambda.
QueuedInOrder ==
    Len(messageQueue') > Len(messageQueue)
        => LET queued == messageQueue'[Len(messageQueue')]
           IN  /\ messageQueue' = Append(messageQueue, queued)
               /\ queued.tick = tickNo'
               /\ IF queued.label = "deviation"
                  THEN /\ tickNo' = tickNo + 1
                       /\ \A i \in DOMAIN messageQueue :
                                messageQueue[i].tick < queued.tick
                  ELSE /\ messageQueue # << >>
                       /\ messageQueue[Len(messageQueue)]
                            = [label |-> "deviation", tick |-> queued.tick,
                               earlyString |-> EarlyString(differenceMs),
                               lateString |-> LateString(differenceMs),
                               playheadString |-> EmptyString]

\* The lambdas are run in the order queued: the one run is older than
\* every one left.
AppliedInOrder ==
    Len(messageQueue') < Len(messageQueue)
        => /\ messageQueue' = Tail(messageQueue)
           /\ labelTick'[Head(messageQueue).label] = Head(messageQueue).tick
           /\ \A i \in DOMAIN messageQueue' :
                    \/ Head(messageQueue).tick < messageQueue'[i].tick
                    \/ /\ Head(messageQueue).tick = messageQueue'[i].tick
                       /\ Head(messageQueue).label = "deviation"
                       /\ messageQueue'[i].label = "playhead"

\* No label goes back to the text of an earlier callback.
LabelsNeverGoBack ==
    /\ labelTick'.deviation >= labelTick.deviation
    /\ labelTick'.playhead >= labelTick.playhead

\* C24: each callback queues its deviation lambda before its playhead
\* lambda, the lambdas are run in the order they were queued, and a label
\* that shows the text of callback n never shows the text of an earlier
\* callback afterwards.
C24_UpdatesAppliedInQueueOrder ==
    /\ [][QueuedInOrder]_vars
    /\ [][AppliedInOrder]_vars
    /\ [][LabelsNeverGoBack]_vars
    /\ [](labelTick.playhead <= labelTick.deviation)

\* The lambdas of two callbacks with different deviations were queued
\* together and the oldest has been run: the deviation labels show the
\* first callback's texts with the second callback's lambda still queued.
C24_Witness ==
    /\ Len(messageQueue) = 3
    /\ labelTick = [deviation |-> 1, playhead |-> 0]
    /\ messageQueue[2].label = "deviation"
    /\ messageQueue[2].tick = 2
    /\ devLoads[1].val # devLoads[2].val
    /\ earlyMsLabel = EarlyString(devLoads[1].val)
    /\ lateMsLabel = LateString(devLoads[1].val)
    /\ <<earlyMsLabel, lateMsLabel>>
            # <<messageQueue[2].earlyString, messageQueue[2].lateString>>

==========================================================================
